---- MODULE Spec2Model ----
(***************************************************************************)
(* Export/import pipeline of GoatCounter (export.go): Export.Create,       *)
(* Export.Run, Import, ExportRow.Read, ExportRow.Hit and importError.      *)
(*                                                                         *)
(* Pointers of the Go code (to int64, string, ...) are sequences: <<>> is *)
(* nil and <<v>> is a pointer to v.  Strings the code inspects character   *)
(* by character (the header's first cell) are sequences of characters.     *)
(***************************************************************************)
EXTENDS Integers, Sequences, FiniteSets, TLC

\* ------------------------------------------------------------------ bounds
MaxHitID == 4        \* hit identities of the store are drawn from 1..MaxHitID
BatchLimit == 2      \* stands for the batch size 5000 handed to Hits.List
MaxExports == 2      \* export jobs created in one behaviour
MaxRows == 2         \* lines after the header in one import stream
MaxImports == 2      \* Import runs in one behaviour
GroupSize == 1       \* stands for the capacity 50 handed to errors.NewGroup
IntRange == 4        \* stands for the range of a Go int counter

\* ------------------------------------------------------- program constants
NumField == 12       \* fields of ExportRow
ZeroUint128 == 0     \* zero value of zint.Uint128

ExportVersion == <<"1">>

Nil == <<>>
Ptr(v) == <<v>>
NoErr == "nil"

VARIABLES
    store,      \* hits table: the identities of the site's hits
    exports,    \* exports table: one row per job, indexed by export_id
    files,      \* files[id]: the artifact at exports[id].path
    e,          \* the in-memory Export value of the current job
    mailUser,   \* argument of the current Export.Run
    epc,        \* position of the current Export.Run
    exportErr,  \* local exportErr of Export.Run
    pending,    \* hits of the current batch not yet handed to the encoder
    cbuf,       \* rows held by the csv.Writer's buffer
    gz,         \* rows the gzip.Writer has received
    elog,       \* per job: what happened in its run (observation only)
    mails,      \* messages the current run has handed to blackmail.Send
    ipc,        \* position of the current Import
    irun,       \* number of Import runs started
    header,     \* result of reading the header of the current stream
    left,       \* lines the current stream still holds
    replace,    \* arguments of the current Import
    email,
    sessions,   \* the sessions map of the current Import
    n,          \* the counter n of the current Import
    errs,       \* the errors.Group of the current Import
    memstore,   \* hits the current Import has handed to Memstore.Append
    earlier,    \* session identities of the hits earlier Imports appended
    nextSession,\* Memstore's session counter
    ilog,       \* per Import run: what happened in it (observation only)
    cpc,        \* position of the codec round trip
    chit,       \* the hit handed to the encoder
    cline,      \* the row the encoder wrote for it
    cdec        \* what ExportRow.Read and ExportRow.Hit made of the row

exportVars == <<store, exports, files, e, mailUser, epc, exportErr, pending,
                cbuf, gz, elog>>
importVars == <<ipc, irun, header, left, replace, email, sessions, n, errs,
                memstore, earlier, nextSession, ilog>>
codecVars == <<cpc, chit, cline, cdec>>
vars == <<exportVars, importVars, mails, codecVars>>

\* ---------------------------------------------------------------- helpers
Last(s) == s[Len(s)]

RECURSIVE SortedSeq(_)
\* the elements of a finite set of integers in ascending order
SortedSeq(S) ==
    IF S = {} THEN <<>>
    ELSE LET m == CHOOSE x \in S : \A y \in S : x <= y
         IN <<m>> \o SortedSeq(S \ {m})

Take(s, k) == SubSeq(s, 1, IF Len(s) < k THEN Len(s) ELSE k)

\* ============================================================= the export

\* A line of the artifact: the header line or the row of one hit.
HeaderRow == [hdr |-> TRUE, id |-> 0]
HitRow(hit) == [hdr |-> FALSE, id |-> hit]

\* Hits.List(ctx, limit, paginate): at most limit hits with hit_id > paginate
\* in ascending order, and the identity of the last one (paginate itself when
\* there is none).  lost: the query failed before it delivered a hit.
HitsList(hits, limit, paginate, lost) ==
    LET found == IF lost THEN <<>>
                 ELSE Take(SortedSeq({h \in hits : h > paginate}), limit)
    IN [hits |-> found,
        last |-> IF Len(found) > 0 THEN Last(found) ELSE paginate]

\* The row inserted by Export.Create.
NewExportRow(ex) ==
    [start_from_hit_id |-> ex.StartFromHitID, last_hit_id |-> Nil,
     finished_at |-> Nil, num_rows |-> Nil, size |-> Nil, hash |-> Nil,
     error |-> Nil]

\* The Export value after Export.Create.
NewExportFromZero(id, startFrom) ==
    [ID |-> id, StartFromHitID |-> 0, LastHitID |-> Nil,
     NumRows |-> Nil, Size |-> Nil, Hash |-> Nil]
NewExport(id, startFrom) ==
    [ID |-> id, StartFromHitID |-> startFrom, LastHitID |-> Nil,
     NumRows |-> Nil, Size |-> Nil, Hash |-> Nil]

NewFile == [exists |-> TRUE, content |-> <<>>, closed |-> FALSE]

NewLog(startFrom) ==
    [start |-> startFrom, listErr |-> FALSE, flushErr |-> FALSE,
     errStmt |-> "none", finStmt |-> "none", result |-> "running",
     e |-> <<>>, mailed |-> 0]

\* The start points the caller hands to Export.Create: any point for the
\* first job; a later job resumes a finished one from its last_hit_id.
StartPoints ==
    IF exports = <<>> THEN 0..MaxHitID
    ELSE {Last(exports).last_hit_id[i] : i \in DOMAIN Last(exports).last_hit_id}

\* Export.Create: insert the row, create the file.
Create ==
    /\ epc \in {"idle", "done"}
    /\ Len(exports) < MaxExports
    /\ \E startFrom \in StartPoints :
         LET id == Len(exports) + 1 IN
         /\ e' = NewExport(id, startFrom)
         /\ exports' = Append(exports, NewExportRow(NewExport(id, startFrom)))
         /\ files' = Append(files, NewFile)
         /\ elog' = Append(elog, NewLog(startFrom))
    /\ epc' = "created"
    /\ exportErr' = NoErr
    /\ pending' = <<>>
    /\ cbuf' = <<>>
    /\ gz' = <<>>
    /\ mails' = <<>>
    /\ UNCHANGED <<store, mailUser, importVars, codecVars>>

\* Export.Run up to the loop: the header goes to the encoder, the checkpoint
\* is the start point and the row count is zero.
RunStart ==
    /\ epc = "created"
    /\ \E m \in BOOLEAN : mailUser' = m
    /\ cbuf' = <<HeaderRow>>
    /\ gz' = <<>>
    /\ exportErr' = NoErr
    /\ e' = [e EXCEPT !.LastHitID = Ptr(e.StartFromHitID), !.NumRows = Ptr(0)]
    /\ epc' = "list"
    /\ UNCHANGED <<store, exports, files, pending, elog, mails, importVars, codecVars>>

\* The checkpoint after a call of Hits.List.
SetLastHitID(ex, last) == [ex EXCEPT !.LastHitID = Ptr(last)]

\* The two breaks that follow the call of Hits.List.
LoopBreaksOnEmptyOnly(hits, err) == Len(hits) = 0
LoopBreaks(hits, err) == Len(hits) = 0 \/ err # NoErr

\* *e.NumRows += len(hits)
SetNumRows(ex, hits) == [ex EXCEPT !.NumRows = Ptr(Len(hits))]
AddNumRows(ex, hits) == [ex EXCEPT !.NumRows = Ptr(ex.NumRows[1] + Len(hits))]

\* One call of Hits.List and what the loop does with its result, up to the
\* loop over the hits.  A failing call returns its error with or without hits.
ListBatch ==
    /\ epc = "list"
    /\ \E failed \in BOOLEAN, lost \in BOOLEAN :
         LET res  == HitsList(store, BatchLimit, e.LastHitID[1], lost)
             hits == res.hits
             err  == IF failed THEN "Hits.List" ELSE NoErr
             e1   == SetLastHitID(e, res.last)
         IN
         /\ (lost => failed)
         /\ exportErr' = err
         /\ elog' = [elog EXCEPT ![e.ID].listErr = @ \/ failed]
         /\ IF LoopBreaks(hits, err)
            THEN /\ e' = e1
                 /\ pending' = <<>>
                 /\ epc' = "end"
            ELSE /\ e' = AddNumRows(e1, hits)
                 /\ pending' = hits
                 /\ epc' = "write"
    /\ UNCHANGED <<store, exports, files, mailUser, cbuf, gz, mails,
                   importVars, codecVars>>

\* c.Write of the row of one hit.
WriteRow ==
    /\ epc = "write"
    /\ pending # <<>>
    /\ cbuf' = Append(cbuf, HitRow(Head(pending)))
    /\ pending' = Tail(pending)
    /\ epc' = IF Tail(pending) = <<>> THEN "flush" ELSE "write"
    /\ UNCHANGED <<store, exports, files, e, mailUser, exportErr, gz, elog,
                   mails, importVars, codecVars>>

\* What c.Flush hands to the gzip stream.
Flushed(stream, buf) == stream \o buf

\* c.Flush and c.Error: on success the buffered rows are in the gzip stream;
\* on failure a part of them is and the loop ends.
Flush ==
    /\ epc = "flush"
    /\ \/ /\ gz' = Flushed(gz, cbuf)
          /\ cbuf' = <<>>
          /\ exportErr' = NoErr
          /\ epc' = "list"
          /\ elog' = elog
       \/ /\ \E k \in 0..(Len(cbuf) - 1) : gz' = Flushed(gz, SubSeq(cbuf, 1, k))
          /\ cbuf' = <<>>
          /\ exportErr' = "flush"
          /\ epc' = "end"
          /\ elog' = [elog EXCEPT ![e.ID].flushErr = TRUE]
    /\ UNCHANGED <<store, exports, files, e, mailUser, pending, mails,
                   importVars, codecVars>>

\* Export.Run returns: the values it leaves behind are recorded.
Returned(log, ex, result) == [log EXCEPT !.result = result, !.e = Ptr(ex)]

\* update exports set error=$1 where export_id=$2
SetError(row, msg) == [row EXCEPT !.error = Ptr(msg)]

\* The loop ended with an error: the message goes to the job (a failure of
\* that statement is only logged), the streams are closed and the file is
\* removed.
Fail ==
    /\ epc = "end"
    /\ exportErr # NoErr
    /\ \E dbOk \in BOOLEAN :
         /\ exports' = IF dbOk
                       THEN [exports EXCEPT ![e.ID] = SetError(@, exportErr)]
                       ELSE exports
         /\ elog' = [elog EXCEPT ![e.ID] =
                       Returned([@ EXCEPT !.errStmt = IF dbOk THEN "ok" ELSE "failed"],
                                e, "failed")]
    /\ files' = [files EXCEPT ![e.ID] =
                   [exists |-> FALSE, content |-> <<>>, closed |-> TRUE]]
    /\ epc' = "done"
    /\ UNCHANGED <<store, e, mailUser, exportErr, pending, cbuf, gz, mails,
                   importVars, codecVars>>

\* gzfp.Close() after a loop that ended without error: what the gzip stream
\* received is the content of the file.
CloseGzip ==
    /\ epc = "end"
    /\ exportErr = NoErr
    /\ \/ /\ files' = [files EXCEPT ![e.ID].content = gz]
          /\ epc' = "sync"
          /\ elog' = elog
       \/ /\ files' = [files EXCEPT ![e.ID].closed = TRUE]
          /\ epc' = "done"
          /\ elog' = [elog EXCEPT ![e.ID] = Returned(@, e, "degraded")]
    /\ UNCHANGED <<store, exports, e, mailUser, exportErr, pending, cbuf, gz,
                   mails, importVars, codecVars>>

\* fp.Sync()
Sync ==
    /\ epc = "sync"
    /\ \/ /\ epc' = "stat"
          /\ UNCHANGED <<files, elog>>
       \/ /\ files' = [files EXCEPT ![e.ID].closed = TRUE]
          /\ epc' = "done"
          /\ elog' = [elog EXCEPT ![e.ID] = Returned(@, e, "degraded")]
    /\ UNCHANGED <<store, exports, e, mailUser, exportErr, pending, cbuf, gz,
                   mails, importVars, codecVars>>

\* fmt.Sprintf("%.1f", float64(stat.Size())/1024/1024) for the few rows of a
\* model artifact, "0" when fp.Stat fails.
SizeOf(statOk) == IF statOk THEN "0.0" ELSE "0"

\* fp.Stat() and e.Size
Stat ==
    /\ epc = "stat"
    /\ \E statOk \in BOOLEAN : e' = [e EXCEPT !.Size = Ptr(SizeOf(statOk))]
    /\ epc' = "close"
    /\ UNCHANGED <<store, exports, files, mailUser, exportErr, pending, cbuf,
                   gz, elog, mails, importVars, codecVars>>

\* fp.Close()
CloseFile ==
    /\ epc = "close"
    /\ files' = [files EXCEPT ![e.ID].closed = TRUE]
    /\ \/ /\ epc' = "hash"
          /\ elog' = elog
       \/ /\ epc' = "done"
          /\ elog' = [elog EXCEPT ![e.ID] = Returned(@, e, "degraded")]
    /\ UNCHANGED <<store, exports, e, mailUser, exportErr, pending, cbuf, gz,
                   mails, importVars, codecVars>>

\* zcrypto.HashFile: the digest of the content, the empty string with an
\* error.
HashFile(file, ok) == IF ok THEN <<"sha256", file.content>> ELSE <<>>

\* hash, err := zcrypto.HashFile(e.Path); e.Hash = &hash
Hash ==
    /\ epc = "hash"
    /\ \E ok \in BOOLEAN :
         LET e1 == [e EXCEPT !.Hash = Ptr(HashFile(files[e.ID], ok))] IN
         /\ e' = e1
         /\ IF ok
            THEN /\ epc' = "finish"
                 /\ elog' = elog
            ELSE /\ epc' = "done"
                 /\ elog' = [elog EXCEPT ![e.ID] = Returned(@, e1, "degraded")]
    /\ UNCHANGED <<store, exports, files, mailUser, exportErr, pending, cbuf,
                   gz, mails, importVars, codecVars>>

\* update exports set finished_at=$1, num_rows=$2, size=$3, hash=$4,
\* last_hit_id=$5 where export_id=$6
SetFinishedFromStart(row, ex) ==
    [row EXCEPT !.finished_at = Ptr("now"), !.num_rows = ex.NumRows,
                !.size = ex.Size, !.hash = ex.Hash,
                !.last_hit_id = Ptr(ex.StartFromHitID)]
SetFinished(row, ex) ==
    [row EXCEPT !.finished_at = Ptr("now"), !.num_rows = ex.NumRows,
                !.size = ex.Size, !.hash = ex.Hash,
                !.last_hit_id = ex.LastHitID]

\* The final update of the job; a failure of the statement is only logged.
Finish ==
    /\ epc = "finish"
    /\ \E dbOk \in BOOLEAN :
         /\ exports' = IF dbOk
                       THEN [exports EXCEPT ![e.ID] = SetFinished(@, e)]
                       ELSE exports
         /\ elog' = [elog EXCEPT ![e.ID].finStmt = IF dbOk THEN "ok" ELSE "failed"]
    /\ epc' = "mail"
    /\ UNCHANGED <<store, files, e, mailUser, exportErr, pending, cbuf, gz,
                   mails, importVars, codecVars>>

\* if mailUser { blackmail.Send("GoatCounter export ready", ...) } and return
Mail ==
    /\ epc = "mail"
    /\ IF mailUser
       THEN /\ \E sent \in BOOLEAN :
                 mails' = Append(mails, [kind |-> "export-done", job |-> e.ID,
                                         info |-> <<>>, sent |-> sent])
            /\ elog' = [elog EXCEPT ![e.ID] =
                          Returned([@ EXCEPT !.mailed = @ + 1], e,
                                   IF @.finStmt = "ok" THEN "success" ELSE "unsaved")]
       ELSE /\ mails' = mails
            /\ elog' = [elog EXCEPT ![e.ID] =
                          Returned(@, e,
                                   IF @.finStmt = "ok" THEN "success" ELSE "unsaved")]
    /\ epc' = "done"
    /\ UNCHANGED <<store, exports, files, e, mailUser, exportErr, pending,
                   cbuf, gz, importVars, codecVars>>

\* ============================================================= the import

\* The texts of the Session and Screen size columns of a line.
Tokens == {"s1", "s2"}
SizeTexts == {"", "1920,1080,1", "x"}

\* The texts of the columns Path, Event, Bot, FirstVisit, Referrer scheme and
\* Date of a line: all of them valid, or one of them not.
Checked ==
    {<<"/a", "true", "0", "false", "", "2020-06-18T14:42:00Z">>,
     <<"/a", "true", "0", "false", "h", "2020-06-18T14:42:00Z">>,
     <<"", "true", "0", "false", "", "2020-06-18T14:42:00Z">>,
     <<"/a", "x", "0", "false", "", "2020-06-18T14:42:00Z">>,
     <<"/a", "true", "x", "false", "", "2020-06-18T14:42:00Z">>,
     <<"/a", "true", "0", "x", "", "2020-06-18T14:42:00Z">>,
     <<"/a", "true", "0", "false", "ftp", "2020-06-18T14:42:00Z">>,
     <<"/a", "true", "0", "false", "", "18-06-2020">>}

\* The lines a stream can hold: twelve columns, or a single one.
Lines ==
    {<<c[1], "T", c[2], c[3], tok, c[4], "ref", c[5], "Firefox", sz, "NL", c[6]>> :
        c \in Checked, tok \in Tokens, sz \in SizeTexts}
    \cup {<<"/a">>}

\* What c.Read() returns for a line of the stream: the line, or an error that
\* is not io.EOF (a bare quote in the line, say).
Reads == {[err |-> NoErr, line |-> l] : l \in Lines}
         \cup {[err |-> "csv", line |-> <<>>]}

\* The first cell of the header line, as characters.
HeaderCells == {<<"1", "P">>, <<"1">>, <<"2", "P">>, <<"P">>, <<>>}

\* What c.Read() returns for the header.
HeaderReads == {[err |-> NoErr, line |-> <<c>>] : c \in HeaderCells}
               \cup {[err |-> "csv", line |-> <<>>]}

\* strings.HasPrefix
HasPrefix(str, prefix) ==
    /\ Len(str) >= Len(prefix)
    /\ SubSeq(str, 1, Len(prefix)) = prefix

\* The header test of Import.
WrongVersion(line) == Len(line) = 0 \/ ~HasPrefix(line[1], ExportVersion)

\* header[0][:1] in the message of the version error is out of range.
VersionMessagePanics(line) == Len(line) = 0 \/ Len(line[1]) < 1

\* errors.NewGroup(size)
NewGroup(size) == [MaxSize |-> size, errs |-> <<>>, nerrs |-> 0]

\* Group.Append: nothing for a nil error; else the error is counted, and
\* retained while there is room.
GroupAppend(g, err) ==
    IF err = NoErr THEN g
    ELSE [g EXCEPT !.nerrs = (@ + 1) % IntRange,
                   !.errs = IF Len(@) < g.MaxSize THEN Append(@, err) ELSE @]

RECURSIVE AppendAll(_, _)
\* Group.Append for each error of a sequence, in order.
AppendAll(g, es) ==
    IF es = <<>> THEN g ELSE AppendAll(GroupAppend(g, Head(es)), Tail(es))

\* errs = errors.NewGroup(50)
UnboundedErrs == NewGroup(0)
NewErrs == NewGroup(GroupSize)

\* The errors one iteration of the loop hands to errs.Append: each stage
\* (c.Read, row.Read, row.Hit) appends its error and, when it is one, ends
\* the iteration with continue.
FaultsWithoutContinue(rdErr, readErr, hitErr) ==
    SelectSeq(<<rdErr, readErr, hitErr>>, LAMBDA x : x # NoErr)
Faults(rdErr, readErr, hitErr) ==
    IF rdErr # NoErr THEN <<rdErr>>
    ELSE IF readErr # NoErr THEN <<readErr>>
    ELSE IF hitErr # NoErr THEN <<hitErr>>
    ELSE <<>>

ZeroRow ==
    [Path |-> "", Title |-> "", Event |-> "", Bot |-> "", Session |-> "",
     FirstVisit |-> "", Ref |-> "", RefScheme |-> "", Browser |-> "",
     Size |-> "", Location |-> "", CreatedAt |-> ""]

\* ExportRow.Read: the fields are set by position.
Read(line) ==
    IF Len(line) # NumField
    THEN [err |-> "wrong number of fields", row |-> ZeroRow]
    ELSE [err |-> NoErr,
          row |-> [Path |-> line[1], Title |-> line[2], Event |-> line[3],
                   Bot |-> line[4], Session |-> line[5],
                   FirstVisit |-> line[6], Ref |-> line[7],
                   RefScheme |-> line[8], Browser |-> line[9],
                   Size |-> line[10], Location |-> line[11],
                   CreatedAt |-> line[12]]]

\* The texts zvalidate.Boolean, zvalidate.Integer and zvalidate.Date (with
\* time.RFC3339) accept among the texts of the model, and the texts
\* Floats.UnmarshalText parses.
BooleanTexts == {"true", "false"}
IntegerTexts == {"0", "1", "2"}
RFC3339Texts == {"2020-06-18T14:42:00Z", "2020-06-18T14:42:01Z"}
FloatsTexts == {"1920,1080,1", "800,600,2"}

\* The value of a text the validator accepted; the zero value for any other.
ParseBool(s) == s = "true"
ParseInt(s) == IF s = "1" THEN 1 ELSE IF s = "2" THEN 2 ELSE 0

\* A time.Time: seconds since 2020-06-18T14:42:00Z and the nanoseconds
\* within the second; the zero time lies before every instant of the model.
ZeroTime == [sec |-> 0 - 1, nsec |-> 0]
ParseRFC3339(s) ==
    IF s = "2020-06-18T14:42:00Z" THEN [sec |-> 0, nsec |-> 0]
    ELSE IF s = "2020-06-18T14:42:01Z" THEN [sec |-> 1, nsec |-> 0]
    ELSE ZeroTime

\* Floats.UnmarshalText: the numbers between the commas.
ParseFloats(s) ==
    IF s = "1920,1080,1" THEN <<1920, 1080, 1>>
    ELSE IF s = "800,600,2" THEN <<800, 600, 2>>
    ELSE <<>>

\* RefSchemeHTTP, RefSchemeOther, RefSchemeGenerated, RefSchemeCampaign
RefSchemes == {"h", "o", "g", "c"}

\* The messages the validator of ExportRow.Hit has collected.
Validate(row) ==
    (IF row.Path = "" THEN {"path: must be set"} ELSE {})
    \cup (IF row.Event \notin BooleanTexts THEN {"event: must be a boolean"} ELSE {})
    \cup (IF row.Bot \notin IntegerTexts THEN {"bot: must be a whole number"} ELSE {})
    \cup (IF row.FirstVisit \notin BooleanTexts
          THEN {"firstVisit: must be a boolean"} ELSE {})
    \cup (IF row.CreatedAt \notin RFC3339Texts
          THEN {"createdAt: must be a date"} ELSE {})
    \cup (IF row.RefScheme # "" /\ row.RefScheme \notin RefSchemes
          THEN {"refScheme: must be one value of the list"} ELSE {})

\* ExportRow.Hit: with a Size the result of its parse is returned, else the
\* result of the validator.
HitWithoutRefScheme(row) ==
    LET hit == [Path |-> row.Path, Title |-> row.Title, Ref |-> row.Ref,
                Browser |-> row.Browser, Location |-> row.Location,
                Event |-> ParseBool(row.Event),
                Bot |-> ParseInt(row.Bot),
                FirstVisit |-> ParseBool(row.FirstVisit),
                CreatedAt |-> ParseRFC3339(row.CreatedAt),
                RefScheme |-> Nil,
                Size |-> ParseFloats(row.Size)]
    IN IF row.Size # ""
       THEN [hit |-> hit,
             err |-> IF row.Size \in FloatsTexts THEN NoErr ELSE "size"]
       ELSE [hit |-> hit,
             err |-> IF Validate(row) = {} THEN NoErr ELSE "validate"]
Hit(row) ==
    LET hit == [Path |-> row.Path, Title |-> row.Title, Ref |-> row.Ref,
                Browser |-> row.Browser, Location |-> row.Location,
                Event |-> ParseBool(row.Event),
                Bot |-> ParseInt(row.Bot),
                FirstVisit |-> ParseBool(row.FirstVisit),
                CreatedAt |-> ParseRFC3339(row.CreatedAt),
                RefScheme |-> IF row.RefScheme # "" THEN Ptr(row.RefScheme) ELSE Nil,
                Size |-> ParseFloats(row.Size)]
    IN IF row.Size # ""
       THEN [hit |-> hit,
             err |-> IF row.Size \in FloatsTexts THEN NoErr ELSE "size"]
       ELSE [hit |-> hit,
             err |-> IF Validate(row) = {} THEN NoErr ELSE "validate"]

\* s, ok := sessions[row.Session]; if !ok { sessions[row.Session] =
\* Memstore.SessionID() }: the value of s.
SessionOf(map, token) ==
    IF token \in DOMAIN map THEN map[token] ELSE ZeroUint128

\* The sessions map after these lines; minted is the identity
\* Memstore.SessionID() returns.
Remapped(map, token, minted) ==
    IF token \in DOMAIN map THEN map ELSE (token :> minted) @@ map

EmptyMap == [t \in {} |-> ZeroUint128]

\* A line the decode validation accepts (observation only, written from the
\* rules of the row format and not from ExportRow.Hit).
WellFormedRow(row) ==
    /\ row.Path # ""
    /\ row.Event \in BooleanTexts
    /\ row.FirstVisit \in BooleanTexts
    /\ row.Bot \in IntegerTexts
    /\ row.RefScheme = "" \/ row.RefScheme \in RefSchemes
    /\ row.CreatedAt \in RFC3339Texts
    /\ row.Size = "" \/ row.Size \in FloatsTexts
WellFormed(rd) ==
    /\ rd.err = NoErr
    /\ Len(rd.line) = NumField
    /\ WellFormedRow(Read(rd.line).row)

NewImportLog ==
    [importErrors |-> 0, deleteAlls |-> 0, wipeFailed |-> FALSE, lines |-> 0,
     reads |-> 0, wellFormed |-> 0, malformed |-> 0, faults |-> <<>>]

\* importError: the failure notification.
importError(job, sent) ==
    [kind |-> "import-error", job |-> job, info |-> <<>>, sent |-> sent]

\* Import up to the wipe: the header is read and its version is tested.  The
\* locals of the loop and the observations start afresh with the run.
ImportStart ==
    /\ ipc \in {"idle", "done"}
    /\ irun < MaxImports
    /\ irun' = irun + 1
    /\ \E r \in BOOLEAN, m \in BOOLEAN, k \in 0..MaxRows, h \in HeaderReads,
          sent \in BOOLEAN :
         /\ replace' = r
         /\ email' = m
         /\ left' = k
         /\ header' = h
         /\ IF h.err # NoErr
            THEN /\ mails' = <<importError(irun', sent)>>
                 /\ ilog' = [NewImportLog EXCEPT !.importErrors = 1, !.lines = k]
                 /\ ipc' = "done"
            ELSE IF WrongVersion(h.line)
            THEN IF VersionMessagePanics(h.line)
                 THEN /\ mails' = <<>>
                      /\ ilog' = [NewImportLog EXCEPT !.lines = k]
                      /\ ipc' = "panic"
                 ELSE /\ mails' = <<importError(irun', sent)>>
                      /\ ilog' = [NewImportLog EXCEPT !.importErrors = 1,
                                                      !.lines = k]
                      /\ ipc' = "done"
            ELSE /\ mails' = <<>>
                 /\ ilog' = [NewImportLog EXCEPT !.lines = k]
                 /\ ipc' = "wipe"
    /\ sessions' = EmptyMap
    /\ n' = 0
    /\ errs' = NewErrs
    /\ memstore' = <<>>
    /\ earlier' = earlier \cup {memstore[i].Session : i \in DOMAIN memstore}
    /\ UNCHANGED <<nextSession, exportVars, codecVars>>

\* Where Import goes after site.DeleteAll returned: to the loop, or out.
AfterWipeIgnoringError(ok) == "rows"
AfterWipe(ok) == IF ok THEN "rows" ELSE "done"

\* if replace { site.DeleteAll(ctx) }, then the locals of the loop.
ImportWipe ==
    /\ ipc = "wipe"
    /\ IF replace
       THEN \E ok \in BOOLEAN, sent \in BOOLEAN :
              /\ ilog' = [ilog EXCEPT !.deleteAlls = @ + 1,
                                      !.wipeFailed = ~ok,
                                      !.importErrors = IF ok THEN @ ELSE @ + 1]
              /\ ipc' = AfterWipe(ok)
              /\ mails' = IF ok THEN mails
                          ELSE Append(mails, importError(irun, sent))
              /\ (ok => sent)
       ELSE /\ ilog' = ilog
            /\ ipc' = "rows"
            /\ mails' = mails
    /\ sessions' = EmptyMap
    /\ n' = 0
    /\ errs' = NewErrs
    /\ UNCHANGED <<irun, header, left, replace, email, memstore, earlier,
                   nextSession, exportVars, codecVars>>

\* c.Read() returns io.EOF: the loop ends.
ReadEOF ==
    /\ ipc = "rows"
    /\ left = 0
    /\ ipc' = "finish"
    /\ UNCHANGED <<irun, header, left, replace, email, sessions, n, errs,
                   memstore, earlier, nextSession, ilog, mails, exportVars, codecVars>>

\* One iteration of the loop over a line of the stream.
ReadLine ==
    /\ ipc = "rows"
    /\ left > 0
    /\ left' = left - 1
    /\ \E rd \in Reads :
         LET r   == Read(rd.line)
             h   == Hit(r.row)
             fs  == Faults(rd.err, r.err, h.err)
             tok == r.row.Session
         IN
         /\ ilog' = [ilog EXCEPT !.reads = @ + 1,
                        !.wellFormed = IF WellFormed(rd) THEN @ + 1 ELSE @,
                        !.malformed = IF WellFormed(rd) THEN @ ELSE @ + 1,
                        !.faults = @ \o fs]
         /\ errs' = AppendAll(errs, fs)
         /\ IF rd.err # NoErr \/ r.err # NoErr \/ h.err # NoErr
            THEN UNCHANGED <<sessions, nextSession, memstore, n>>
            ELSE /\ sessions' = Remapped(sessions, tok, nextSession)
                 /\ nextSession' = IF tok \in DOMAIN sessions
                                   THEN nextSession ELSE nextSession + 1
                 /\ memstore' = Append(memstore,
                       [Path |-> h.hit.Path,
                        Session |-> SessionOf(sessions, tok),
                        token |-> tok,
                        wellFormed |-> WellFormed(rd)])
                 /\ n' = n + 1
    /\ ipc' = "rows"
    /\ UNCHANGED <<irun, header, replace, email, earlier, mails, exportVars, codecVars>>

\* After the loop: the completion notification when email is set.
ImportFinish ==
    /\ ipc = "finish"
    /\ IF email
       THEN \E sent \in BOOLEAN :
              mails' = Append(mails, [kind |-> "import-done", job |-> irun,
                                      info |-> <<n, errs.nerrs>>,
                                      sent |-> sent])
       ELSE mails' = mails
    /\ ipc' = "done"
    /\ UNCHANGED <<irun, header, left, replace, email, sessions, n, errs,
                   memstore, earlier, nextSession, ilog, exportVars, codecVars>>

\* c.Read() returns an error that is not io.EOF and no line, where the
\* stream has no further line to give: the reader under the csv.Reader
\* fails (a truncated gzip stream, say), once or on every read. The error
\* goes to errs.Append and the loop continues.
ReadBroken ==
    /\ ipc = "rows"
    /\ left = 0
    /\ errs' = AppendAll(errs, Faults("read", NoErr, NoErr))
    /\ UNCHANGED <<ipc, irun, header, left, replace, email, sessions, n,
                   memstore, earlier, nextSession, ilog, mails, exportVars,
                   codecVars>>

\* ============================================================== the codec

\* fmt.Sprintf("%t", b)
FormatBool(b) == IF b THEN "true" ELSE "false"

\* fmt.Sprintf("%d", i) and strconv.FormatInt(i, 10)
FormatInt(i) == IF i = 0 THEN "0" ELSE IF i = 1 THEN "1" ELSE "2"

\* u.String() of the uuid made of the bytes of a session identity.
UUIDString(u) ==
    IF u = 1 THEN "00000000-0000-0000-0000-000000000001"
    ELSE "00000000-0000-0000-0000-000000000002"

\* zfloat.Join(size, ",")
Join(size) ==
    IF size = <<1920, 1080, 1>> THEN "1920,1080,1"
    ELSE IF size = <<800, 600, 2>> THEN "800,600,2"
    ELSE ""

\* t.Format(time.RFC3339): the seconds and the offset; no fraction.
FormatRFC3339(t) ==
    IF t.sec = 0 THEN "2020-06-18T14:42:00Z" ELSE "2020-06-18T14:42:01Z"

\* The row Export.Run writes for a hit.
Encode(hit) ==
    LET s  == IF hit.OldSession # Nil THEN FormatInt(hit.OldSession[1])
              ELSE UUIDString(hit.Session)
        rs == IF hit.RefScheme # Nil THEN hit.RefScheme[1] ELSE ""
    IN <<hit.Path, hit.Title, FormatBool(hit.Event), FormatInt(hit.Bot), s,
         FormatBool(hit.FirstVisit), hit.Ref, rs, hit.Browser, Join(hit.Size),
         hit.Location, FormatRFC3339(hit.CreatedAt)>>

\* The hits a store holds: the path is set, the referrer scheme is absent
\* or one of the list, the size is empty or three numbers, and the creation
\* time has whole seconds.
ValidHits ==
    [Path : {"/a", "/b"}, Title : {"", "T"}, Event : BOOLEAN, Bot : 0..2,
     OldSession : {Nil, Ptr(1)}, Session : {2}, FirstVisit : BOOLEAN,
     Ref : {"", "ref"}, RefScheme : {Nil} \cup {Ptr(x) : x \in RefSchemes},
     Browser : {"Firefox"}, Size : {<<>>, <<1920, 1080, 1>>, <<800, 600, 2>>},
     Location : {"NL"},
     CreatedAt : {[sec |-> 0, nsec |-> 0], [sec |-> 1, nsec |-> 0]}]

\* c.Write([]string{...}) for the hit.
CodecEncode ==
    /\ cpc = "encode"
    /\ cline' = Encode(chit)
    /\ cpc' = "decode"
    /\ UNCHANGED <<chit, cdec, exportVars, importVars, mails>>

\* row.Read(line), then row.Hit(site.ID), as in the loop of Import.
CodecDecode ==
    /\ cpc = "decode"
    /\ LET r == Read(cline)
       IN cdec' = IF r.err # NoErr THEN [hit |-> Nil, err |-> r.err]
                  ELSE [hit |-> Ptr(Hit(r.row).hit), err |-> Hit(r.row).err]
    /\ cpc' = "done"
    /\ UNCHANGED <<chit, cline, exportVars, importVars, mails>>

CodecNext == CodecEncode \/ CodecDecode

CodecIdle ==
    /\ cpc = "idle"
    /\ chit = Nil
    /\ cline = <<>>
    /\ cdec = Nil

ImportNext ==
    \/ ImportStart \/ ImportWipe \/ ReadEOF \/ ReadLine \/ ImportFinish

ImportInit ==
    /\ ipc = "idle"
    /\ irun = 0
    /\ header = [err |-> NoErr, line |-> <<>>]
    /\ left = 0
    /\ replace = FALSE
    /\ email = FALSE
    /\ sessions = EmptyMap
    /\ n = 0
    /\ errs = NewErrs
    /\ memstore = <<>>
    /\ earlier = {}
    /\ nextSession = 1
    /\ ilog = NewImportLog


ExportNext ==
    \/ Create \/ RunStart \/ ListBatch \/ WriteRow \/ Flush \/ Fail
    \/ CloseGzip \/ Sync \/ Stat \/ CloseFile \/ Hash \/ Finish \/ Mail

ExportInit ==
    /\ store \in SUBSET (1..MaxHitID)
    /\ exports = <<>>
    /\ files = <<>>
    /\ e = NewExport(0, 0)
    /\ mailUser = FALSE
    /\ epc = "idle"
    /\ exportErr = NoErr
    /\ pending = <<>>
    /\ cbuf = <<>>
    /\ gz = <<>>
    /\ elog = <<>>

\* Nothing has run; the store holds any hits.
Init == ExportInit /\ ImportInit /\ mails = <<>> /\ CodecIdle

\* Nothing has run; the site has no hits yet.
InitEmptySite == Init /\ store = {}

\* The export engine over a store of any content.
SpecExport == Init /\ [][ExportNext]_vars

\* A hit of the store is about to be encoded.
InitCodec ==
    /\ ExportInit /\ store = {}
    /\ ImportInit
    /\ mails = <<>>
    /\ cpc = "encode"
    /\ chit \in ValidHits
    /\ cline = <<>>
    /\ cdec = Nil

\* One hit through the encoder of Export.Run and the decoder of Import.
SpecCodec == InitCodec /\ [][CodecNext]_vars

\* The import engine over sources that can fail instead of ending.
ImportNextAnySource == ImportNext \/ ReadBroken

\* Import keeps running: a step that can be taken is taken.
SpecImportAnySource ==
    InitEmptySite /\ [][ImportNextAnySource]_vars /\ WF_vars(ImportNextAnySource)

\* The import engine over streams of any content; the store plays no part.
SpecImport == InitEmptySite /\ [][ImportNext]_vars

\* ===================================================== properties: export

Jobs == DOMAIN exports

\* the identities of the data rows of an artifact, in file order
RowIds(content) ==
    LET rows == SelectSeq(content, LAMBDA r : ~r.hdr)
    IN [i \in 1..Len(rows) |-> rows[i].id]

\* the hits of the store after a start point, in ascending order
IdsAfter(x) == SortedSeq({h \in store : h > x})

\* the run of job i returned after the final update was persisted
Succeeded(i) == elog[i].result = "success"

\* C3: every run that ends in success leaves an artifact that starts with the
\* header row; when there is no hit after the start point the run succeeds
\* with num_rows = 0, no error, a hash, and an artifact of exactly the header.
C3_SuccessHasHeader ==
    \A i \in Jobs :
      Succeeded(i) =>
        /\ files[i].exists
        /\ Len(files[i].content) > 0
        /\ files[i].content[1] = HeaderRow
        /\ (IdsAfter(elog[i].start) = <<>> =>
              /\ exports[i].num_rows = Ptr(0)
              /\ exports[i].error = Nil
              /\ exports[i].hash # Nil
              /\ files[i].content = <<HeaderRow>>)

\* C5: after a successful run the checkpoint, in memory and in last_hit_id,
\* is the identity of the last row of the artifact, the start point when the
\* artifact has no row; the empty batch that ends the loop leaves it alone.
C5_CheckpointIsLastWritten ==
    \A i \in Jobs :
      Succeeded(i) =>
        LET ids == RowIds(files[i].content)
            lastWritten == IF ids = <<>> THEN elog[i].start ELSE Last(ids)
        IN /\ elog[i].e[1].LastHitID = Ptr(lastWritten)
           /\ exports[i].last_hit_id = Ptr(lastWritten)

\* C5 witness: a successful run wrote a full batch or more and then met the
\* empty batch.
C5_Witness ==
    \E i \in Jobs :
      /\ Succeeded(i)
      /\ Len(RowIds(files[i].content)) >= BatchLimit
      /\ exports[i].last_hit_id = Ptr(Last(RowIds(files[i].content)))

\* C6: the rows of a successful run from X followed by the rows of a
\* successful run started from the first run's last_hit_id are the hits
\* after X, none missing and none twice.
C6_Resumable ==
    \A i \in Jobs, j \in Jobs :
      (/\ i < j
       /\ Succeeded(i)
       /\ Succeeded(j)
       /\ Ptr(elog[j].start) = exports[i].last_hit_id) =>
        RowIds(files[i].content) \o RowIds(files[j].content)
          = IdsAfter(elog[i].start)

\* C6 witness: a run that wrote rows was resumed from its checkpoint and the
\* resuming run succeeded too.
C6_Witness ==
    \E i \in Jobs, j \in Jobs :
      /\ i < j
      /\ Succeeded(i)
      /\ Succeeded(j)
      /\ Ptr(elog[j].start) = exports[i].last_hit_id
      /\ elog[i].start < elog[j].start
      /\ RowIds(files[i].content) # <<>>

\* C7: a successful run wrote exactly the hits after its start point, each
\* once and in ascending order, and num_rows counts the data rows.
C7_ExactRows ==
    \A i \in Jobs :
      Succeeded(i) =>
        /\ RowIds(files[i].content) = IdsAfter(elog[i].start)
        /\ exports[i].num_rows = Ptr(Len(RowIds(files[i].content)))
        /\ elog[i].e[1].NumRows = exports[i].num_rows

\* C7 witness: a successful run over more hits than one batch holds.
C7_Witness ==
    \E i \in Jobs :
      /\ Succeeded(i)
      /\ Len(RowIds(files[i].content)) > BatchLimit
      /\ exports[i].num_rows = Ptr(Len(RowIds(files[i].content)))

\* C9: when Hits.List fails in a batch, with or without hits, or the flush of
\* a batch fails, the run executes the error update with the message (the row
\* carries it once the statement succeeded), removes the file, persists none
\* of finished_at, num_rows, size, hash, last_hit_id, sends no notification
\* and returns; no row ever carries both an error and a hash.
C9_FatalExport ==
    \A i \in Jobs :
      /\ ~(exports[i].error # Nil /\ exports[i].hash # Nil)
      /\ (elog[i].listErr \/ elog[i].flushErr) =>
           /\ exports[i].finished_at = Nil
           /\ exports[i].num_rows = Nil
           /\ exports[i].size = Nil
           /\ exports[i].hash = Nil
           /\ exports[i].last_hit_id = Nil
           /\ elog[i].mailed = 0
           /\ \A k \in DOMAIN mails : mails[k].job # i
           /\ elog[i].result \in {"running", "failed"}
           /\ (i < Len(exports) => elog[i].result = "failed")
           /\ (i = Len(exports) => (epc = "done" <=> elog[i].result = "failed"))
           /\ (elog[i].result = "failed" =>
                 /\ ~files[i].exists
                 /\ elog[i].errStmt \in {"ok", "failed"}
                 /\ (elog[i].errStmt = "ok" =>
                       exports[i].error =
                         Ptr(IF elog[i].listErr THEN "Hits.List" ELSE "flush")))

\* C9 witness: Hits.List failed in a batch after rows had been flushed, and
\* the run has returned with the error on the job.
C9_Witness ==
    \E i \in Jobs :
      /\ elog[i].listErr
      /\ elog[i].result = "failed"
      /\ exports[i].error = Ptr("Hits.List")
      /\ gz # <<>>
      /\ i = e.ID

\* ===================================================== properties: import

Appended == DOMAIN memstore

\* C1: within one Import, every hit handed to Memstore.Append, the first one
\* of its session token included, carries the identity Memstore.SessionID()
\* minted for that token, so two hits of one token carry the same identity.
C1_SessionIsMinted ==
    \A i \in Appended :
      /\ memstore[i].token \in DOMAIN sessions
      /\ memstore[i].Session = sessions[memstore[i].token]
      /\ \A j \in Appended :
           memstore[j].token = memstore[i].token =>
             memstore[j].Session = memstore[i].Session

\* C2: Import never ingests a line that fails the decode validation: every
\* hit handed to Memstore.Append comes from a well-formed line, and every
\* other line is counted as a fault, whatever its Screen size column holds.
C2_NoInvalidIngest ==
    /\ \A i \in Appended : memstore[i].wellFormed
    /\ ilog.malformed <= errs.nerrs

\* C4: when the first cell of the header does not start with ExportVersion,
\* the empty cell included, Import sends the failure notification exactly
\* once, does not wipe, appends nothing and returns.
C4_HeaderGate ==
    (irun > 0 /\ header.err = NoErr /\ WrongVersion(header.line)) =>
      /\ ipc = "done"
      /\ ilog.importErrors = 1
      /\ Len(mails) = 1
      /\ mails[1].kind = "import-error"
      /\ ilog.deleteAlls = 0
      /\ memstore = <<>>

\* C8: at every point of the loop, Memstore.Append has been called once per
\* well-formed line read so far and the fault count is the number of
\* malformed lines read so far.
C8_FaultIsolation ==
    /\ Len(memstore) = ilog.wellFormed
    /\ n = ilog.wellFormed
    /\ errs.nerrs = ilog.malformed

\* C10: no hit of the current Import carries a session identity that a hit
\* of an earlier Import carried.
C10_RunsDisjoint ==
    \A i \in Appended : memstore[i].Session \notin earlier

\* True once the current Import has left its loop through io.EOF.
LoopEnded == ipc = "finish" \/ (ipc = "done" /\ irun > 0 /\ ilog.importErrors = 0)

Carried(hit) ==
    [Path |-> hit.Path, Title |-> hit.Title, Event |-> hit.Event,
     Bot |-> hit.Bot, FirstVisit |-> hit.FirstVisit, Ref |-> hit.Ref,
     RefScheme |-> hit.RefScheme, Browser |-> hit.Browser, Size |-> hit.Size,
     Location |-> hit.Location, CreatedAt |-> hit.CreatedAt]

\* C12: the row Export.Run writes for a valid hit has twelve columns, and
\* ExportRow.Read followed by ExportRow.Hit decode it without error into a
\* hit with the same path, title, event flag, bot code, first-visit flag,
\* referrer, referrer scheme, browser, size, location and creation time.
C12_RoundTrip ==
    /\ cpc \in {"decode", "done"} => Len(cline) = NumField
    /\ cpc = "done" =>
         /\ cdec.err = NoErr
         /\ cdec.hit # Nil
         /\ Carried(cdec.hit[1]) = Carried(chit)

\* A hit with a referrer scheme, a size and a legacy session has made the
\* round trip.
C12_Witness ==
    /\ cpc = "done"
    /\ chit.RefScheme # Nil
    /\ chit.Size # <<>>
    /\ chit.OldSession # Nil
    /\ chit.Event
    /\ chit.Bot > 0

\* C13: a run that returned because gzfp.Close, fp.Sync, fp.Close or
\* zcrypto.HashFile failed after a loop without error has kept the artifact,
\* has recorded no error on the job, and has left the job without hash and
\* without size, in the row of the database and in the Export value alike.
C13_DegradedUnhashed ==
    \A i \in Jobs :
      elog[i].result = "degraded" =>
        /\ files[i].exists
        /\ exports[i].error = Nil
        /\ exports[i].hash = Nil
        /\ exports[i].size = Nil
        /\ elog[i].e[1].Hash = Nil
        /\ elog[i].e[1].Size = Nil

\* C14: in every state of a run, every hit of the store that the
\* checkpoint e.LastHitID covers has its row flushed to the output stream,
\* and e.NumRows counts flushed rows only.
C14_CheckpointAfterFlush ==
    (epc \notin {"idle", "created"} /\ e.LastHitID # Nil) =>
      /\ \A h \in store :
           (e.StartFromHitID < h /\ h <= e.LastHitID[1]) =>
             \E k \in DOMAIN gz : gz[k] = HitRow(h)
      /\ e.NumRows[1] <= Len(RowIds(gz))

\* The header of the current stream was read and carries the version.
HeaderPassed == header.err = NoErr /\ ~WrongVersion(header.line)

\* C15: site.DeleteAll is called only after the header passed the version
\* test and only with replace set, at most once, and before any hit is
\* handed to Memstore.Append; when it fails Import sends the failure
\* notification, reads and appends nothing, and returns; without replace it
\* is never called.
C15_StepOrder ==
    /\ ilog.deleteAlls <= 1
    /\ ilog.deleteAlls > 0 => (replace /\ HeaderPassed)
    /\ ~replace => ilog.deleteAlls = 0
    /\ ipc = "wipe" => (HeaderPassed /\ ilog.deleteAlls = 0 /\ memstore = <<>>)
    /\ (ipc \in {"rows", "finish"} \/ memstore # <<>>) =>
         /\ HeaderPassed
         /\ replace => (ilog.deleteAlls = 1 /\ ~ilog.wipeFailed)
    /\ ilog.wipeFailed =>
         /\ ipc = "done"
         /\ ilog.reads = 0
         /\ memstore = <<>>
         /\ n = 0
         /\ ilog.importErrors = 1
         /\ Len(mails) = 1
         /\ mails[1].kind = "import-error"

\* site.DeleteAll failed on a stream that holds lines, and Import returned.
C15_Witness ==
    /\ replace
    /\ ilog.wipeFailed
    /\ ilog.lines > 0
    /\ ipc = "done"
    /\ Len(mails) = 1

\* C17: after every iteration of the loop the hits handed to
\* Memstore.Append and the faults the aggregator counted add up to the lines
\* read, a line being one or the other; n is the number of appended hits;
\* and the completion notification reports n as that number.
C17_Accounting ==
    /\ Len(memstore) + errs.nerrs = ilog.reads
    /\ n = Len(memstore)
    /\ \A k \in DOMAIN mails :
         mails[k].kind = "import-done" =>
           mails[k].info[1] = Len(memstore)

\* Import has sent the completion notification for a stream of which it
\* appended a hit and counted a fault.
C17_Witness ==
    /\ ipc = "done"
    /\ Len(memstore) > 0
    /\ errs.nerrs > 0
    /\ \E k \in DOMAIN mails : mails[k].kind = "import-done"

\* C18: a run hands the export-ready mail to blackmail.Send at most once,
\* only with mailUser set, and only when the row of the job carries
\* finished_at, num_rows, size, hash and last_hit_id.
C18_MailAfterPersist ==
    /\ \A i \in Jobs : elog[i].mailed <= 1
    /\ \A k \in DOMAIN mails :
         mails[k].kind = "export-done" =>
           /\ mailUser
           /\ exports[mails[k].job].finished_at # Nil
           /\ exports[mails[k].job].num_rows # Nil
           /\ exports[mails[k].job].size # Nil
           /\ exports[mails[k].job].hash # Nil
           /\ exports[mails[k].job].last_hit_id # Nil

\* C16: once Import is in its loop it leaves the loop and returns, also
\* when c.Read() reports errors that are not io.EOF.
C16_ImportReturns == (ipc = "rows") ~> (ipc = "done")

====
